---- MODULE Spec2Model ----
(***************************************************************************)
(* Model of the circuit breaker of src/circuitbreaker.go.                  *)
(*                                                                         *)
(* Every section of Execute that runs under cb.mu is one atomic action:    *)
(* Phase 1 (admission), Phase 3 (recording).  Phase 2, the call of fn(),   *)
(* runs with the lock released and is an action of its own.  Reset is one  *)
(* locked section.  Callers are goroutines that call Execute again and     *)
(* again; the clock is the environment's.                                  *)
(***************************************************************************)
EXTENDS Integers, Sequences, FiniteSets, TLC

\* ---------------------------------------------------------------- bounds
NumCallers == 2      \* goroutines calling Execute concurrently
MaxTime == 1         \* the clock runs over 0..MaxTime
MaxCount == 2        \* cap of failureCount and successCount

Callers == 1..NumCallers

\* ------------------------------------------------------- program constants
StateClosed == 0
StateOpen == 1
StateHalfOpen == 2

States == {StateClosed, StateOpen, StateHalfOpen}

\* time.Time{}: the zero time, far in the past of every clock reading.
ZeroTime == -1

Nil == "nil"
ErrOpen == "circuit breaker is open"
ErrHalfOpen == "circuit breaker is half-open"

\* What a wrapped operation may return: (result, error).
FnReturns == {<<"data", Nil>>, <<"partial", "boom">>}

\* The settings a breaker is constructed with: thresholds and MaxRequests
\* positive, Timeout >= 0, and OnStateChange a callback (TRUE; FALSE is nil,
\* with which no invocation is ever made).
SettingsSet ==
    [FailureThreshold : {1, 2},
     SuccessThreshold : {1, 2},
     Timeout          : {0, 1},
     MaxRequests      : {1, 2},
     OnStateChange    : {TRUE}]

VARIABLES
    settings,          \* cb.settings, immutable after New
    state,             \* cb.state
    failureCount,      \* cb.failureCount
    successCount,      \* cb.successCount
    halfOpenRequests,  \* cb.halfOpenRequests
    openedAt,          \* cb.openedAt
    mu,                \* cb.mu: who holds the lock between two steps
    now,               \* the clock read by time.Since and time.Now
    healthy,           \* the wrapped operation has recovered: it succeeds
                       \* from now on
    pc,                \* per caller: where it stands in Execute
    captured,          \* per caller: the local `state` of Execute (line 123)
    fnRet,             \* per caller: the local (result, err) of line 140
    calls,             \* per caller: invocations of fn in the current Execute
    ret,               \* per caller: what Execute returned
    notified,          \* the OnStateChange invocations made by the last step
    run,               \* history: the current run of consecutive failures of
                       \* calls admitted in Closed
    probeStreak,       \* history: consecutive successes of calls admitted in
                       \* Half-Open, recorded in the current Half-Open episode
    lastNote           \* history: the new mode of the last notification
                       \* delivered (the initial mode before the first)

vars == <<settings, state, failureCount, successCount, halfOpenRequests,
          openedAt, mu, now, healthy, pc, captured, fnRet, calls, ret, notified, run,
          probeStreak, lastNote>>

breaker == <<state, failureCount, successCount, halfOpenRequests, openedAt>>

NoRet == <<Nil, Nil>>
\* cb.mu holds 0 when unlocked, and the caller that locked it otherwise.
Unlocked == 0
NoRun == [len |-> 0, fromClosed |-> FALSE, opens |-> 0, closedOpens |-> 0,
          notes |-> 0]

\* ------------------------------------------------------------- helpers

\* time.Since(t) >= d, for the clock reading `now`.
SinceAtLeast(t, d) == IF t = ZeroTime THEN TRUE ELSE now - t >= d

\* Variant: the guard of lines 195-197 is missing.
CallbackAlways(old, newState) ==
    IF settings.OnStateChange THEN <<<<old, newState>>>> ELSE <<>>

\* Variant: the callback's arguments are swapped.
CallbackSwapped(old, newState) ==
    IF old # newState /\ settings.OnStateChange
    THEN <<<<newState, old>>>>
    ELSE <<>>

\* The callback invocations setState(newState) makes from mode `old`.
Callback(old, newState) ==
    IF old # newState /\ settings.OnStateChange
    THEN <<<<old, newState>>>>
    ELSE <<>>

\* The new mode of the last notification delivered, after this step.
Delivered ==
    lastNote' = IF notified' = <<>> THEN lastNote
                ELSE notified'[Len(notified')][2]

\* cb.setState(newState)
setState(newState) ==
    /\ state' = newState
    /\ notified' = Callback(state, newState)

\* ------------------------------------------------------------- New
Init ==
    /\ settings \in SettingsSet
    /\ state = StateClosed
    /\ failureCount = 0
    /\ successCount = 0
    /\ halfOpenRequests = 0
    /\ openedAt = ZeroTime
    /\ mu = Unlocked
    /\ now = 0
    /\ healthy = FALSE
    /\ pc = [c \in Callers |-> "idle"]
    /\ captured = [c \in Callers |-> StateClosed]
    /\ fnRet = [c \in Callers |-> NoRet]
    /\ calls = [c \in Callers |-> 0]
    /\ ret = [c \in Callers |-> NoRet]
    /\ notified = <<>>
    /\ run = NoRun
    /\ probeStreak = 0
    /\ lastNote = StateClosed

\* ------------------------------------------------------------- Execute

\* Variant: the cooldown is not waited for.
CooldownElapsedNoWait == state = StateOpen

\* Line 117: the lazy Open -> Half-Open check.
CooldownElapsed ==
    state = StateOpen /\ SinceAtLeast(openedAt, settings.Timeout)

\* Variant: the capacity comparison is strict.
HalfOpenFullLate(n) == n > settings.MaxRequests

\* Lines 129-130: no probe slot is left.
HalfOpenFull(n) == n >= settings.MaxRequests

\* Variant: line 119 is missing.
HalfOpenRequestsStale == halfOpenRequests

\* Lines 117-119: halfOpenRequests as the admission switch reads it.
HalfOpenRequestsAtAdmission ==
    IF CooldownElapsed THEN 0 ELSE halfOpenRequests

\* cb.mu.Lock() (lines 115, 143, 177) returns once nobody holds the lock.
Lock == mu = Unlocked

\* Variant: the lock is kept while fn runs (no Unlock at line 137).
MuHeldAcrossFn(c) == c

\* Lines 127, 131, 137: every path of Phase 1 unlocks before it goes on.
MuAfterAdmission(c) == Unlocked

\* Phase 1 (lines 115-137): admission, under the lock.
ExecutePhase1(c) ==
    /\ pc[c] \in {"idle", "returned"}
    /\ Lock
    /\ mu' = MuAfterAdmission(c)
    /\ LET mode == IF CooldownElapsed THEN StateHalfOpen ELSE state
           hor  == HalfOpenRequestsAtAdmission
       IN /\ IF CooldownElapsed
             THEN /\ setState(StateHalfOpen)
                  /\ successCount' = 0
             ELSE /\ UNCHANGED <<state, successCount>>
                  /\ notified' = <<>>
          /\ captured' = [captured EXCEPT ![c] = mode]
          /\ calls' = [calls EXCEPT ![c] = 0]
          /\ fnRet' = [fnRet EXCEPT ![c] = NoRet]
          /\ CASE mode = StateOpen ->
                    /\ halfOpenRequests' = hor
                    /\ ret' = [ret EXCEPT ![c] = <<Nil, ErrOpen>>]
                    /\ pc' = [pc EXCEPT ![c] = "returned"]
               [] mode = StateHalfOpen /\ HalfOpenFull(hor) ->
                    /\ halfOpenRequests' = hor
                    /\ ret' = [ret EXCEPT ![c] = <<Nil, ErrHalfOpen>>]
                    /\ pc' = [pc EXCEPT ![c] = "returned"]
               [] mode = StateHalfOpen /\ ~HalfOpenFull(hor) ->
                    /\ halfOpenRequests' = hor + 1
                    /\ ret' = [ret EXCEPT ![c] = NoRet]
                    /\ pc' = [pc EXCEPT ![c] = "admitted"]
               [] OTHER ->
                    /\ halfOpenRequests' = hor
                    /\ ret' = [ret EXCEPT ![c] = NoRet]
                    /\ pc' = [pc EXCEPT ![c] = "admitted"]
    /\ probeStreak' = IF CooldownElapsed THEN 0 ELSE probeStreak
    /\ Delivered
    /\ UNCHANGED <<settings, failureCount, openedAt, now, healthy, run>>

\* What fn() can return now.
Outcomes == IF healthy THEN {r \in FnReturns : r[2] = Nil} ELSE FnReturns

\* Phase 2 (line 140): fn() runs, no lock held.
ExecutePhase2(c) ==
    /\ pc[c] = "admitted"
    /\ \E r \in Outcomes :
          /\ fnRet' = [fnRet EXCEPT ![c] = r]
          /\ calls' = [calls EXCEPT ![c] = @ + 1]
    /\ pc' = [pc EXCEPT ![c] = "ran"]
    /\ notified' = <<>>
    /\ UNCHANGED <<settings, breaker, mu, now, healthy, captured, ret, run,
                   probeStreak, lastNote>>

\* Variant: a failed probe reopens only at the threshold.
TripsOpenThresholdOnly(mode, failures) ==
    failures >= settings.FailureThreshold

\* Variant: the threshold comparison is strict.
TripsOpenLate(mode, failures) ==
    mode = StateHalfOpen \/ failures > settings.FailureThreshold

\* Line 150: a recorded failure reopens the circuit.
TripsOpen(mode, failures) ==
    mode = StateHalfOpen \/ failures >= settings.FailureThreshold

\* Line 159: a recorded probe success closes the circuit.
ClosesCircuit(successes) == successes >= settings.SuccessThreshold

\* Variant: the result is dropped when fn failed.
ExecuteResultDropsValue(r) == IF r[2] # Nil THEN <<Nil, r[2]>> ELSE r

\* What Execute returns after recording (line 165).
ExecuteResult(r) == r

\* The run of consecutive failures of calls admitted in Closed, after a
\* recording step of a call admitted in `mode` with error `err`.
RunAfter(mode, err) ==
    IF mode = StateClosed /\ err # Nil /\ (run.len > 0 \/ failureCount = 0)
    THEN LET base == IF run.len > 0 THEN run
                     ELSE [NoRun EXCEPT !.fromClosed = (state = StateClosed)]
             opened == state' = StateOpen /\ state # StateOpen
             fromC  == state' = StateOpen /\ state = StateClosed
         IN [len         |-> base.len + 1,
             fromClosed  |-> base.fromClosed,
             opens       |-> base.opens + (IF opened THEN 1 ELSE 0),
             closedOpens |-> base.closedOpens + (IF fromC THEN 1 ELSE 0),
             notes       |-> base.notes +
                 (IF <<StateClosed, StateOpen>> \in
                        {notified'[i] : i \in 1..Len(notified')}
                  THEN 1 ELSE 0)]
    ELSE NoRun

\* The streak of probe successes of the current Half-Open episode, after a
\* recording step of a call admitted in `mode` with error `err`.
ProbeStreakAfter(mode, err) ==
    IF mode = StateHalfOpen /\ state = StateHalfOpen
    THEN (IF err = Nil THEN probeStreak + 1 ELSE 0)
    ELSE probeStreak

\* Variant: recording reads cb.state again instead of the captured mode.
RecordingModeCurrent(c) == state

\* Line 123: the mode the recording step decides by.
RecordingMode(c) == captured[c]

\* Variant: line 158 is missing.
ProbesAfterSuccessKept(n) == n

\* Line 158: halfOpenRequests after a probe success.
ProbesAfterSuccess(n) == 0

\* Lines 146-165: the recording step of caller c, which leaves failureCount
\* at `failures` when it records a failure and successCount at `successes`
\* when it records a success.
Record(c, failures, successes) ==
    /\ pc[c] = "ran"
    /\ Lock
    /\ mu' = Unlocked
    /\ LET err == fnRet[c][2]
           mode == RecordingMode(c)
       IN IF err # Nil
          THEN /\ failureCount' = failures
               /\ successCount' = 0
               /\ IF TripsOpen(mode, failures)
                  THEN /\ setState(StateOpen)
                       /\ openedAt' = now
                  ELSE /\ UNCHANGED <<state, openedAt>>
                       /\ notified' = <<>>
               /\ UNCHANGED halfOpenRequests
          ELSE /\ successCount' = successes
               /\ failureCount' = 0
               /\ IF mode = StateHalfOpen
                  THEN /\ halfOpenRequests' = ProbesAfterSuccess(halfOpenRequests)
                       /\ IF ClosesCircuit(successes)
                          THEN setState(StateClosed)
                          ELSE /\ UNCHANGED state
                               /\ notified' = <<>>
                  ELSE /\ UNCHANGED <<state, halfOpenRequests>>
                       /\ notified' = <<>>
               /\ UNCHANGED openedAt
    /\ ret' = [ret EXCEPT ![c] = ExecuteResult(fnRet[c])]
    /\ pc' = [pc EXCEPT ![c] = "returned"]
    /\ Delivered
    /\ UNCHANGED <<settings, now, healthy, captured, fnRet, calls>>

\* Phase 3 (lines 143-165): recording, under the lock.  The counters stop
\* at MaxCount.
ExecutePhase3(c) ==
    /\ IF fnRet[c][2] # Nil THEN failureCount < MaxCount
                            ELSE successCount < MaxCount
    /\ Record(c, failureCount + 1, successCount + 1)
    /\ run' = RunAfter(captured[c], fnRet[c][2])
    /\ probeStreak' = ProbeStreakAfter(captured[c], fnRet[c][2])

\* ------------------------------------------------------------- Reset

\* Variant: line 183 is missing.
ResetKeepsProbes ==
    /\ Lock
    /\ mu' = Unlocked
    /\ setState(StateClosed)
    /\ failureCount' = 0
    /\ successCount' = 0
    /\ openedAt' = ZeroTime
    /\ run' = NoRun
    /\ probeStreak' = 0
    /\ Delivered
    /\ UNCHANGED <<settings, halfOpenRequests, now, healthy, pc, captured,
                   fnRet, calls, ret>>

Reset ==
    /\ Lock
    /\ mu' = Unlocked
    /\ setState(StateClosed)
    /\ failureCount' = 0
    /\ successCount' = 0
    /\ halfOpenRequests' = 0
    /\ openedAt' = ZeroTime
    /\ run' = NoRun
    /\ probeStreak' = 0
    /\ Delivered
    /\ UNCHANGED <<settings, now, healthy, pc, captured, fnRet, calls, ret>>

\* ------------------------------------------------------------- the clock
Tick ==
    /\ now < MaxTime
    /\ now' = now + 1
    /\ notified' = <<>>
    /\ UNCHANGED <<settings, breaker, mu, healthy, pc, captured, fnRet, calls,
                   ret, run, probeStreak, lastNote>>

\* ------------------------------------------------------------- behaviours
Next ==
    \/ \E c \in Callers : ExecutePhase1(c)
    \/ \E c \in Callers : ExecutePhase2(c)
    \/ \E c \in Callers : ExecutePhase3(c)
    \/ Reset
    \/ Tick

Spec == Init /\ [][Next]_vars

\* Concurrent Execute calls only: nobody calls Reset.
NextNoReset ==
    \/ \E c \in Callers : ExecutePhase1(c)
    \/ \E c \in Callers : ExecutePhase2(c)
    \/ \E c \in Callers : ExecutePhase3(c)
    \/ Tick

SpecNoReset == Init /\ [][NextNoReset]_vars

\* ------------------------------------------------- unbounded behaviours
\* The same breaker with nothing stopping at the bounds: a counter past
\* MaxCount is kept at MaxCount (every threshold is at most MaxCount, so
\* each comparison of lines 150 and 159 is unchanged), and a clock past
\* MaxTime moves openedAt back instead (every Timeout is at most MaxTime,
\* so the comparison of line 117 is unchanged).

Saturate(n) == IF n > MaxCount THEN MaxCount ELSE n

\* Phase 3 (lines 143-165) with saturating counters.
ExecutePhase3Saturating(c) ==
    /\ Record(c, Saturate(failureCount + 1), Saturate(successCount + 1))
    /\ UNCHANGED <<run, probeStreak>>

\* The clock advancing, for ever.
TickOn ==
    /\ IF now < MaxTime
       THEN /\ now' = now + 1
            /\ UNCHANGED openedAt
       ELSE /\ now' = now
            /\ openedAt' = IF openedAt \in {ZeroTime, 0} THEN openedAt
                           ELSE openedAt - 1
    /\ notified' = <<>>
    /\ UNCHANGED <<settings, state, failureCount, successCount,
                   halfOpenRequests, mu, healthy, pc, captured, fnRet, calls,
                   ret, run, probeStreak, lastNote>>

\* The wrapped operation recovers: from here on every call of fn succeeds.
Recover ==
    /\ ~healthy
    /\ healthy' = TRUE
    /\ notified' = <<>>
    /\ UNCHANGED <<settings, breaker, mu, now, pc, captured, fnRet, calls,
                   ret, run, probeStreak, lastNote>>

NextLive ==
    \/ \E c \in Callers : ExecutePhase1(c)
    \/ \E c \in Callers : ExecutePhase2(c)
    \/ \E c \in Callers : ExecutePhase3Saturating(c)
    \/ TickOn
    \/ Recover

\* Time keeps advancing, every caller keeps calling Execute, every wrapped
\* operation returns and every returned call gets the lock to record.
Fairness ==
    /\ WF_vars(TickOn)
    /\ \A c \in Callers :
          /\ WF_vars(ExecutePhase1(c))
          /\ WF_vars(ExecutePhase2(c))
          /\ WF_vars(ExecutePhase3Saturating(c))

SpecLive == Init /\ [][NextLive]_vars /\ Fairness

TypeOK ==
    /\ settings \in SettingsSet
    /\ state \in States
    /\ failureCount \in 0..MaxCount
    /\ successCount \in 0..MaxCount
    /\ halfOpenRequests \in Nat
    /\ openedAt \in {ZeroTime} \cup (0..MaxTime)
    /\ now \in 0..MaxTime
    /\ pc \in [Callers -> {"idle", "admitted", "ran", "returned"}]
    /\ captured \in [Callers -> States]
    /\ calls \in [Callers -> 0..1]

\* ===================================================================
\* Properties
\* ===================================================================

InFlight(c) == pc[c] \in {"admitted", "ran"}

\* Calls admitted under Half-Open that have not recorded their outcome.
ProbesOutstanding == {c \in Callers : InFlight(c) /\ captured[c] = StateHalfOpen}

Rejections == {<<Nil, ErrOpen>>, <<Nil, ErrHalfOpen>>}

\* C1: in Half-Open, the calls admitted under Half-Open and not yet recorded
\* are at most MaxRequests, and an admission attempt made while MaxRequests
\* of them are outstanding is rejected with the half-open error.
C1_ProbesBounded ==
    state = StateHalfOpen =>
        Cardinality(ProbesOutstanding) <= settings.MaxRequests

\* C2: an admission attempt made while Open, with less than Timeout elapsed
\* since openedAt, is rejected with the circuit-open error, and fn is not
\* invoked for that call.
C2_OpenRejects ==
    [][\A c \in Callers :
          (ExecutePhase1(c) /\ state = StateOpen
             /\ ~SinceAtLeast(openedAt, settings.Timeout))
          => /\ pc'[c] = "returned"
             /\ ret'[c] = <<Nil, ErrOpen>>
             /\ calls'[c] = 0
             /\ state' = StateOpen]_vars

C2_Witness ==
    \E c \in Callers :
        /\ pc[c] = "returned" /\ ret[c] = <<Nil, ErrOpen>> /\ calls[c] = 0
        /\ state = StateOpen
        /\ ~SinceAtLeast(openedAt, settings.Timeout)

\* C3 as stated: in every run of consecutive failures of calls admitted in
\* Closed that starts at failureCount = 0, the breaker changes to Open
\* exactly once, when the run reaches FailureThreshold, with exactly one
\* (Closed, Open) notification.
C3_OpensExactlyOnce ==
    run.len > 0 =>
        IF run.len >= settings.FailureThreshold
        THEN run.opens = 1 /\ run.notes = 1
        ELSE run.opens = 0 /\ run.notes = 0

\* C3 amended: in every such run that starts with the breaker Closed, the
\* breaker changes from Closed to Open exactly once, at the recording step
\* where the run reaches FailureThreshold, with exactly one (Closed, Open)
\* notification; before that step it does not change to Open at all.
C3_ClosedOpensExactlyOnce ==
    (run.len > 0 /\ run.fromClosed) =>
        IF run.len >= settings.FailureThreshold
        THEN run.closedOpens = 1 /\ run.notes = 1
        ELSE run.opens = 0 /\ run.notes = 0 /\ state = StateClosed

C3_Witness ==
    /\ run.fromClosed
    /\ run.len > settings.FailureThreshold
    /\ run.closedOpens = 1
    /\ state = StateOpen

C5_ProbeFailureReopens ==
    [][\A c \in Callers :
          (ExecutePhase3(c) /\ captured[c] = StateHalfOpen /\ fnRet[c][2] # Nil)
          => (state' = StateOpen /\ successCount' = 0)]_vars

C5_Witness ==
    \E c \in Callers :
        /\ pc[c] = "returned" /\ captured[c] = StateHalfOpen
        /\ calls[c] = 1 /\ ret[c][2] # Nil
        /\ notified = <<<<StateHalfOpen, StateOpen>>>>
        /\ state = StateOpen /\ successCount = 0
        /\ failureCount < settings.FailureThreshold

\* C6: an admission attempt made while Open, with at least Timeout elapsed
\* since openedAt, moves the breaker to Half-Open (notification
\* (Open, Half-Open), successCount reset) and admits that same call as the
\* one probe in flight; it is not rejected.
C6_CooldownAdmitsProbe ==
    [][\A c \in Callers :
          (ExecutePhase1(c) /\ state = StateOpen
             /\ SinceAtLeast(openedAt, settings.Timeout))
          => /\ state' = StateHalfOpen
             /\ notified' = <<<<StateOpen, StateHalfOpen>>>>
             /\ successCount' = 0
             /\ halfOpenRequests' = 1
             /\ pc'[c] = "admitted"
             /\ captured'[c] = StateHalfOpen]_vars

C6_Witness ==
    /\ state = StateHalfOpen
    /\ notified = <<<<StateOpen, StateHalfOpen>>>>
    /\ halfOpenRequests = 1
    /\ \E c \in Callers : pc[c] = "admitted" /\ captured[c] = StateHalfOpen

\* C7: right after Reset the mode is Closed, failureCount, successCount and
\* halfOpenRequests are 0 and openedAt is the zero time, and Reset notifies
\* if and only if the mode before it was not Closed.
C7_ResetClears ==
    [][Reset =>
          /\ state' = StateClosed
          /\ failureCount' = 0
          /\ successCount' = 0
          /\ halfOpenRequests' = 0
          /\ openedAt' = ZeroTime
          /\ (state # StateClosed => notified' = <<<<state, StateClosed>>>>)
          /\ (state = StateClosed => notified' = <<>>)]_vars

C7_Witness ==
    /\ state = StateClosed /\ failureCount = 0 /\ successCount = 0
    /\ halfOpenRequests = 0 /\ openedAt = ZeroTime
    /\ notified = <<<<StateHalfOpen, StateClosed>>>>
    /\ ProbesOutstanding # {}

\* C8: an admitted Execute invokes fn exactly once and returns the pair fn
\* returned; a rejected Execute invokes fn zero times and returns a
\* rejection error.
C8_ExactlyOneInvocation ==
    \A c \in Callers :
        CASE pc[c] = "idle"     -> calls[c] = 0
          [] pc[c] = "admitted" -> calls[c] = 0
          [] pc[c] = "ran"      -> calls[c] = 1 /\ fnRet[c] \in FnReturns
          [] pc[c] = "returned" ->
                \/ calls[c] = 0 /\ ret[c] \in Rejections
                \/ calls[c] = 1 /\ fnRet[c] \in FnReturns /\ ret[c] = fnRet[c]

C8_Witness ==
    \E c, d \in Callers :
        /\ pc[c] = "returned" /\ calls[c] = 1 /\ ret[c] = <<"partial", "boom">>
        /\ pc[d] = "returned" /\ calls[d] = 0 /\ ret[d] = <<Nil, ErrHalfOpen>>

\* C9: the callback is invoked exactly once, with (mode before, mode after),
\* by every step that changes the mode, and by no step that leaves it as is.
C9_NotifiesExactlyOnChange ==
    [][notified' = IF state' # state THEN <<<<state, state'>>>> ELSE <<>>]_vars

C9_Witness ==
    /\ notified = <<<<StateClosed, StateOpen>>>>
    /\ state = StateOpen
    /\ \E c \in Callers : InFlight(c)

\* The transitions of the state diagram.
Diagram ==
    {<<StateClosed, StateOpen>>, <<StateOpen, StateHalfOpen>>,
     <<StateHalfOpen, StateOpen>>, <<StateHalfOpen, StateClosed>>}

C11_ClosedOpensAtThreshold ==
    [][(state = StateClosed /\ state' = StateOpen) =>
          /\ \E c \in Callers :
                pc[c] = "ran" /\ pc'[c] = "returned" /\ fnRet[c][2] # Nil
          /\ failureCount' >= settings.FailureThreshold]_vars

\* C12: whenever the mode is Half-Open, halfOpenRequests is between 0 and
\* MaxRequests.
C12_ProbeCounterBounded ==
    state = StateHalfOpen =>
        (halfOpenRequests >= 0 /\ halfOpenRequests <= settings.MaxRequests)

C12_Witness ==
    /\ state = StateHalfOpen
    /\ halfOpenRequests = settings.MaxRequests
    /\ \E c \in Callers : pc[c] = "returned" /\ ret[c] = <<Nil, ErrHalfOpen>>

\* C13 as stated: every step that changes the mode into Half-Open or out of
\* Half-Open leaves halfOpenRequests equal to 0.
C13_ProbesZeroOnEnterOrLeave ==
    [][((state # StateHalfOpen /\ state' = StateHalfOpen)
          \/ (state = StateHalfOpen /\ state' # StateHalfOpen))
       => halfOpenRequests' = 0]_vars

\* C13 amended: a step into Half-Open resets halfOpenRequests and counts the
\* call it admits, leaving 1; a step from Half-Open to Closed leaves 0; a
\* step from Half-Open to Open leaves halfOpenRequests as it was.
C13_ProbesOnEnterOrLeave ==
    [][/\ (state # StateHalfOpen /\ state' = StateHalfOpen)
            => halfOpenRequests' = 1
       /\ (state = StateHalfOpen /\ state' = StateClosed)
            => halfOpenRequests' = 0
       /\ (state = StateHalfOpen /\ state' = StateOpen)
            => halfOpenRequests' = halfOpenRequests]_vars

C13_Witness ==
    /\ state = StateOpen
    /\ notified = <<<<StateHalfOpen, StateOpen>>>>
    /\ halfOpenRequests = 2

\* C14: openedAt is written exactly by the steps that change the mode into
\* Open: such a step sets it to the current time, and no other step of
\* Execute modifies it.
C14_OpenedAtOnlyOnOpening ==
    [][IF state # StateOpen /\ state' = StateOpen
       THEN openedAt' = now
       ELSE openedAt' = openedAt]_vars

\* C15: recording decides by the mode captured at admission.  A success of a
\* call admitted in Closed changes neither the mode nor halfOpenRequests,
\* whatever the mode is at recording time; a call admitted in Half-Open is
\* recorded by the Half-Open rules, whatever the mode is at recording time.
C15_RecordsByCapturedMode ==
    [][\A c \in Callers :
          ExecutePhase3(c) =>
             /\ (captured[c] = StateClosed /\ fnRet[c][2] = Nil)
                  => (state' = state /\ halfOpenRequests' = halfOpenRequests)
             /\ (captured[c] = StateHalfOpen /\ fnRet[c][2] # Nil)
                  => state' = StateOpen
             /\ (captured[c] = StateHalfOpen /\ fnRet[c][2] = Nil)
                  => /\ halfOpenRequests' = 0
                     /\ state' = IF successCount + 1 >= settings.SuccessThreshold
                                 THEN StateClosed ELSE state]_vars

\* A success of a call admitted in Closed was recorded during the current
\* Half-Open episode, with a probe in flight.
C15_Witness ==
    /\ state = StateHalfOpen
    /\ successCount >= 1 /\ probeStreak = 0
    /\ halfOpenRequests >= 1
    /\ \E c \in Callers :
          pc[c] = "returned" /\ captured[c] = StateClosed
             /\ calls[c] = 1 /\ ret[c][2] = Nil

\* C17: whenever the mode is Closed, failureCount is below FailureThreshold.
C17_ClosedBelowThreshold ==
    state = StateClosed => failureCount < settings.FailureThreshold

C17_Witness ==
    /\ state = StateClosed
    /\ failureCount > 0
    /\ failureCount = settings.FailureThreshold - 1
    /\ \E c \in Callers : pc[c] = "returned" /\ calls[c] = 1 /\ ret[c][2] # Nil

\* C18: no probe slot is leaked.  In Half-Open, halfOpenRequests > 0 only
\* while a call admitted under Half-Open has not recorded its outcome; with
\* no call in flight a slot is free, so the next Execute is admitted.
C18_NoLeakedProbeSlot ==
    state = StateHalfOpen =>
        /\ halfOpenRequests > 0 => ProbesOutstanding # {}
        /\ (\A c \in Callers : ~InFlight(c)) =>
              halfOpenRequests < settings.MaxRequests

C18_Witness ==
    /\ state = StateHalfOpen
    /\ halfOpenRequests = 0
    /\ probeStreak >= 1
    /\ \A c \in Callers : pc[c] = "returned"

\* C19: the notifications delivered form a chain: the first has previous mode
\* Closed, and each later one's previous mode is the new mode of the one
\* delivered just before it.
C19_NotificationsChain ==
    [][notified' # <<>> => notified'[1][1] = lastNote]_vars

C19_Witness ==
    /\ notified = <<<<StateHalfOpen, StateClosed>>>>
    /\ lastNote = StateClosed
    /\ \E c \in Callers : InFlight(c)


\* C16: no Execute call holds cb.mu while its wrapped operation runs.  While
\* a call is between its admission and its recording step the lock is free,
\* so Reset and the admission of every waiting caller can take it and
\* complete (State and Counts need no more than the lock).
C16_FnRunsUnlocked ==
    (\E c \in Callers : InFlight(c)) =>
        /\ mu = Unlocked
        /\ ENABLED Reset
        /\ \A d \in Callers :
              pc[d] \in {"idle", "returned"} => ENABLED ExecutePhase1(d)

\* A caller was admitted as a probe by the last step, while another call,
\* admitted in Closed, was inside the wrapped operation.
C16_Witness ==
    /\ notified = <<<<StateOpen, StateHalfOpen>>>>
    /\ mu = Unlocked
    /\ \E c, d \in Callers :
          /\ pc[c] = "admitted" /\ captured[c] = StateClosed
          /\ pc[d] = "admitted" /\ captured[d] = StateHalfOpen


\* C20: recovery is reached.  From every state with the mode Open, once the
\* wrapped operation succeeds from then on, the breaker eventually becomes
\* Closed, while time advances and the callers keep calling.
C20_EventuallyClosed ==
    (state = StateOpen /\ healthy) ~> (state = StateClosed)

\* The breaker has closed on probe successes after the operation recovered.
C20_Witness ==
    /\ healthy
    /\ state = StateClosed
    /\ notified = <<<<StateHalfOpen, StateClosed>>>>
    /\ settings.SuccessThreshold = 2
    /\ settings.Timeout = 1

====
